---- MODULE Spec2Model ----
(***************************************************************************)
(* A model of the target engine of samurai (src/src/target.rs):            *)
(*   - Target::finalize_list / Target::finalize, which turn a list of raw  *)
(*     targets into a map from primary name to resolved target, and        *)
(*   - Target::update, which walks that map, decides staleness from        *)
(*     modification times and runs commands.                               *)
(* A panic of the code is modelled as a terminal outcome naming its kind.  *)
(***************************************************************************)
EXTENDS Integers, Sequences, FiniteSets, TLC

\* ------------------------------------------------------------------ bounds

\* Longest dependency / name list of a target.
MaxDeps == 2

\* Most commands in a target, and the latest modification time a file has
\* before the first update.
MaxCmds == 2
MaxTime == 2
\* Most inputs, and most outputs, of a target.
MaxFiles == 2
\* The update calls the driver makes on the requested target.
MaxCalls == 1

\* The files targets read and write, and the command lines they run:
\* "touch" writes the outputs of its target and exits 0, "false" exits 1,
\* "kill" ends by a signal.
Files == {"x", "y", "z"}
Cmds == {"touch", "false", "kill"}

\* Target names, and the one path that never names a target.
Names == {"a", "b", "c"}
Strings == Names \cup {"f"}

\* Most rules in a rule document.
MaxRules == 2

\* Longest name list given to split on its own.
MaxSplit == 3

\* Longest raw target list handed to finalize_list.
MaxTargets == Cardinality(Names)

SeqsUpTo(S, n) == UNION {[1..k -> S] : k \in 0..n}

\* The sequences over S of at most n elements that name nothing twice.
ListsUpTo(S, n) ==
    {s \in SeqsUpTo(S, n) : \A i, j \in 1..Len(s) : i # j => s[i] # s[j]}

\* ----------------------------------------------------------- Option values

\* Option<T> is a sequence of length at most one.
None == <<>>
Some(x) == <<x>>

\* -------------------------------------------------------------- MixedDeps

Mixed(names) ==
    [kind |-> "Mixed", names |-> names, inputs |-> <<>>, dependencies |-> <<>>]

UnMixed(inputs, dependencies) ==
    [kind |-> "UnMixed", names |-> <<>>, inputs |-> inputs,
     dependencies |-> dependencies]

\* SplitMixed with the two arms of its test exchanged.
RECURSIVE SplitMixedSwapped(_, _, _)
SplitMixedSwapped(deps, predicate, res) ==
    IF deps = <<>> THEN res
    ELSE LET dep  == Head(deps)
             name == predicate[dep]
         IN  SplitMixedSwapped(Tail(deps), predicate,
                IF name = None
                THEN [res EXCEPT !.dependencies = Append(@, dep)]
                ELSE [res EXCEPT !.inputs = Append(@, dep)])

\* SplitMixed pushing at the front of the two vectors.
RECURSIVE SplitMixedPrepending(_, _, _)
SplitMixedPrepending(deps, predicate, res) ==
    IF deps = <<>> THEN res
    ELSE LET dep  == Head(deps)
             name == predicate[dep]
         IN  SplitMixedPrepending(Tail(deps), predicate,
                IF name # None
                THEN [res EXCEPT !.dependencies =
                        <<IF name[1] # None THEN name[1][1] ELSE dep>> \o @]
                ELSE [res EXCEPT !.inputs = <<dep>> \o @])

\* The fold of the Mixed arm: res is [inputs, dependencies].
RECURSIVE SplitMixed(_, _, _)
SplitMixed(deps, predicate, res) ==
    IF deps = <<>> THEN res
    ELSE LET dep  == Head(deps)
             name == predicate[dep]
         IN  SplitMixed(Tail(deps), predicate,
                IF name # None
                THEN [res EXCEPT !.dependencies =
                        Append(@, IF name[1] # None THEN name[1][1] ELSE dep)]
                ELSE [res EXCEPT !.inputs = Append(@, dep)])

\* SplitUnMixed leaving out a dependency the predicate does not know.
RECURSIVE SplitUnMixedSkipping(_, _, _)
SplitUnMixedSkipping(deps, predicate, res) ==
    IF deps = <<>> THEN res
    ELSE LET dep  == Head(deps)
             name == predicate[dep]
         IN  SplitUnMixedSkipping(Tail(deps), predicate,
                IF name # None
                THEN [res EXCEPT !.dependencies =
                        Append(@, IF name[1] # None THEN name[1][1] ELSE dep)]
                ELSE res)

\* The fold of the UnMixed arm: it panics at the first dependency that the
\* predicate does not know.
RECURSIVE SplitUnMixed(_, _, _)
SplitUnMixed(deps, predicate, res) ==
    IF deps = <<>> \/ res.panicked THEN res
    ELSE LET dep  == Head(deps)
             name == predicate[dep]
         IN  SplitUnMixed(Tail(deps), predicate,
                IF name # None
                THEN [res EXCEPT !.dependencies =
                        Append(@, IF name[1] # None THEN name[1][1] ELSE dep)]
                ELSE [res EXCEPT !.panicked = TRUE, !.missing = dep])

\* MixedDeps::split: [panicked, missing, inputs, dependencies].
split(self, predicate) ==
    IF self.kind = "Mixed"
    THEN SplitMixed(self.names, predicate,
            [panicked |-> FALSE, missing |-> "", inputs |-> <<>>,
             dependencies |-> <<>>])
    ELSE SplitUnMixed(self.dependencies, predicate,
            [panicked |-> FALSE, missing |-> "", inputs |-> self.inputs,
             dependencies |-> <<>>])

\* ------------------------------------------------------------ raw targets

\* A Target.  id is the position of the raw target in the list given to
\* finalize_list: the identity of the value that finalization moves around.
\* The boxed `extra` is the default TargetExtra (has_name below).
Target(id, name, outputs, dependencies, commands) ==
    [id |-> id, name |-> name, outputs |-> outputs,
     dependencies |-> dependencies, commands |-> commands]

\* The dependency fields a raw target can come with.
DepForms ==
    {Mixed(s) : s \in ListsUpTo(Names, MaxDeps)}
    \cup {UnMixed(<<"f">>, d) : d \in ListsUpTo(Names, MaxDeps)}

\* Names are opaque to the code, so a list is taken up to renaming: its
\* targets are named in order of first appearance.
Order == <<"a", "b", "c">>
Rank(x) == CHOOSE r \in 1..Len(Order) : Order[r] = x

NameLists(n) ==
    LET order == Order
        rank(x) == Rank(x)
    IN  {nm \in [1..n -> Names] :
            \A i \in 1..n : \A r \in 1..(rank(nm[i]) - 1) :
                \E j \in 1..(i - 1) : nm[j] = order[r]}

VARIABLES
    input,      \* the list finalize_list was called with
    list,       \* finalize_list: the pending list
    post,       \* finalize_list: the output map, name -> Option<Target>
    path,       \* finalize_list: the in-progress path
    stack,      \* the activation records of finalize
    outcome,    \* "running", "Ok", or the kind of the panic
    culprit,    \* the name the panic message carries
    result,     \* Option of the map finalize_list returned
    top,        \* the name the driver asks update for
    fs,         \* the file system: path -> modification time, 0 when absent
    now,        \* the reading of the clock at the last write, 0 before any
    ustack,     \* the activation records of update
    trace,      \* the calls, command runs and returns of the current update
    checks,     \* the staleness decisions of the current update
    returned,   \* Option of the Result of the driver's last update call
    calls,      \* the update calls the driver has made
    done,       \* the update calls that ended: result, trace, checks, files
    splitSelf,      \* split on its own: the MixedDeps it is applied to,
    splitPredicate, \* the predicate it is given: name -> Option<Option<name>>
    splitResult,    \* and the Option of what it gave
    text,       \* File::from_str: the rule document
    parsed,     \* File::from_str: Option of its Result
    held,       \* Option of the Rule that Rule::new gave and the caller holds
    reading,    \* Rule::update_mtimes under way: Option of the rule it took
                \* and the number of times it has read
    mtimes,     \* Rule::update_mtimes: Option of the kind of its Result
    reqs        \* Rule::update_reqs: Option of the rule and what it gave

fvars == <<input, list, post, path, stack, outcome, culprit, result>>
uvars == <<top, fs, now, ustack, trace, checks, returned, calls, done>>
svars == <<splitSelf, splitPredicate, splitResult>>
pvars == <<text, parsed, held, reading, mtimes, reqs>>
vars == <<fvars, uvars, svars, pvars>>

\* What the variables of split and of File::from_str hold while the other
\* operations run.
Idle ==
    /\ splitSelf = Mixed(<<>>)
    /\ splitPredicate = [dep \in Strings |-> None]
    /\ splitResult = None
    /\ text = <<>>
    /\ parsed = None
    /\ held = None
    /\ reading = None
    /\ mtimes = None
    /\ reqs = None

\* TargetExtra::has_name, the provided default.
has_name(tgt, name) == tgt.name = name

EmptyMap == [k \in Names |-> None]
Keys(m) == {k \in DOMAIN m : m[k] # None}
Values(m) == {m[k][1] : k \in Keys(m)}

\* Lookup over the pending list alone, the output map forgotten.
LookupPendingOnly(l, p, dep) ==
    LET inList == {i \in 1..Len(l) : has_name(l[i], dep)}
        first  == CHOOSE i \in inList : \A j \in inList : i <= j
    IN  IF inList # {}
        THEN IF l[first].name = dep THEN Some(None) ELSE Some(Some(l[first].name))
        ELSE None

\* Lookup that also finds the targets whose finalization is under way.
LookupSeeingPath(l, p, dep) ==
    LET inList == {i \in 1..Len(l) : has_name(l[i], dep)}
        inPost == {t \in Values(p) : has_name(t, dep)}
        first  == CHOOSE i \in inList : \A j \in inList : i <= j
    IN  IF inList # {}
        THEN IF l[first].name = dep THEN Some(None) ELSE Some(Some(l[first].name))
        ELSE IF inPost # {} \/ \E i \in 1..Len(path) : path[i] = dep
        THEN Some(None)
        ELSE None

\* The closure handed to split by finalize: the first target of
\* list.iter().chain(post.values()) that has the name.
Lookup(l, p, dep) ==
    LET inList == {i \in 1..Len(l) : has_name(l[i], dep)}
        inPost == {t \in Values(p) : has_name(t, dep)}
        first  == CHOOSE i \in inList : \A j \in inList : i <= j
    IN  IF inList # {}
        THEN IF l[first].name = dep THEN Some(None) ELSE Some(Some(l[first].name))
        ELSE IF inPost # {}
        THEN LET target == CHOOSE t \in inPost : TRUE
             IN  IF target.name = dep THEN Some(None) ELSE Some(Some(target.name))
        ELSE None

\* path.contains(dep)
PathContains(p, dep) == \E i \in 1..Len(p) : p[i] = dep

\* list.iter().position(|t| &t.name == dep)
Position(l, dep) ==
    LET at == {i \in 1..Len(l) : l[i].name = dep}
    IN  IF at = {} THEN None
        ELSE Some(CHOOSE i \in at : \A j \in at : i <= j)

\* Remove that also drops what follows the removed element.
RemoveTruncating(l, loc) == SubSeq(l, 1, loc - 1)

\* Vec::remove
Remove(l, loc) == SubSeq(l, 1, loc - 1) \o SubSeq(l, loc + 1, Len(l))

\* A pop that leaves the element in the Vec.
FrontSame(s) == s

\* A pop that takes two elements off.
FrontTwo(s) == SubSeq(s, 1, Len(s) - 2)

\* What is left of a Vec after pop.
Front(s) == SubSeq(s, 1, Len(s) - 1)

\* An insert that never reports the value it displaced.
DisplacedUnseen(p, name) == None

\* HashMap::insert returns the value the key held.
Displaced(p, name) == p[name]

InitFinalize ==
    /\ \E n \in 1..MaxTargets : \E nm \in NameLists(n) :
         \E dp \in [1..n -> DepForms] :
            input = [i \in 1..n |-> Target(i, nm[i], <<>>, dp[i], <<>>)]
    /\ list = input
    /\ post = EmptyMap
    /\ path = <<>>
    /\ stack = <<>>
    /\ outcome = "running"
    /\ culprit = ""
    /\ result = None
    /\ top = ""
    /\ fs = [p \in Files |-> 0]
    /\ now = 0
    /\ ustack = <<>>
    /\ trace = <<>>
    /\ checks = <<>>
    /\ returned = None
    /\ calls = 0
    /\ done = <<>>
    /\ Idle

\* The start of a call elem.finalize(list, post, path), elem already taken
\* out of the list: resolve the names, then push the name on the path.
Enter(elem, rest, callers) ==
    LET s == split(elem.dependencies,
                   [dep \in Strings |-> Lookup(rest, post, dep)])
    IN  /\ list' = rest
        /\ IF s.panicked
           THEN /\ outcome' = "UnresolvedDependency"
                /\ culprit' = s.missing
                /\ UNCHANGED <<stack, path>>
           ELSE /\ stack' = Append(callers,
                        [self |-> elem, inputs |-> s.inputs,
                         dependencies |-> s.dependencies, i |-> 1])
                /\ path' = Append(path, elem.name)
                /\ UNCHANGED <<outcome, culprit>>
        /\ UNCHANGED <<input, post, result>>

\* finalize_list: while let Some(elem) = list.pop() { elem.finalize(..) }
FinalizeListPop ==
    /\ outcome = "running"
    /\ stack = <<>>
    /\ list # <<>>
    /\ Enter(list[Len(list)], Front(list), <<>>)
    /\ UNCHANGED <<uvars, svars, pvars>>

\* finalize: one turn of the loop over the resolved dependencies.
FinalizeDep ==
    /\ outcome = "running"
    /\ stack # <<>>
    /\ UNCHANGED <<uvars, svars, pvars>>
    /\ LET f   == stack[Len(stack)]
       IN  /\ f.i <= Len(f.dependencies)
           /\ LET dep  == f.dependencies[f.i]
                  loc  == Position(list, dep)
                  next == [stack EXCEPT ![Len(stack)].i = f.i + 1]
              IN  IF PathContains(path, dep)
                  THEN /\ outcome' = "Cycle"
                       /\ culprit' = dep
                       /\ UNCHANGED <<input, list, post, path, stack, result>>
                  ELSE IF loc # None
                  THEN Enter(list[loc[1]], Remove(list, loc[1]), next)
                  ELSE /\ stack' = next
                       /\ UNCHANGED <<input, list, post, path, outcome,
                                      culprit, result>>

\* finalize: after the loop, pop the path and store the target in the map.
FinalizeInsert ==
    /\ outcome = "running"
    /\ stack # <<>>
    /\ UNCHANGED <<uvars, svars, pvars>>
    /\ LET f    == stack[Len(stack)]
           name == path[Len(path)]
           tgt  == [f.self EXCEPT
                        !.name = name,
                        !.dependencies = UnMixed(f.inputs, f.dependencies)]
           old  == Displaced(post, name)
       IN  /\ f.i > Len(f.dependencies)
           /\ path' = Front(path)
           /\ stack' = SubSeq(stack, 1, Len(stack) - 1)
           /\ post' = [post EXCEPT ![name] = Some(tgt)]
           /\ IF old # None
              THEN /\ outcome' = "DuplicateName"
                   /\ culprit' = old[1].name
              ELSE UNCHANGED <<outcome, culprit>>
           /\ UNCHANGED <<input, list, result>>

\* finalize_list: the list is empty, the map is returned.
FinalizeListReturn ==
    /\ outcome = "running"
    /\ stack = <<>>
    /\ list = <<>>
    /\ outcome' = "Ok"
    /\ result' = Some(post)
    /\ UNCHANGED <<input, list, post, path, stack, culprit>>
    /\ UNCHANGED <<uvars, svars, pvars>>

Init == InitFinalize

Next ==
    \/ FinalizeListPop
    \/ FinalizeDep
    \/ FinalizeInsert
    \/ FinalizeListReturn

\* finalize_list on every raw list within the bounds.
Spec == Init /\ [][Next]_vars

\* ------------------------------------------------------------------ update

\* The resolved dependency names of a finalized target, and what update
\* reaches from a target of a map by following them.
DepsOf(t) ==
    {t.dependencies.dependencies[k] : k \in 1..Len(t.dependencies.dependencies)}

MapSuccessors(m, S) ==
    UNION {DepsOf(m[k][1]) : k \in S \cap Keys(m)}

RECURSIVE MapClosure(_, _, _)
MapClosure(m, S, k) ==
    IF k = 0 THEN S ELSE MapClosure(m, S \cup MapSuccessors(m, S), k - 1)

\* Every name update(m[k]) looks up in m, at any depth of the recursion.
LookedUp(m, k) == MapClosure(m, MapSuccessors(m, {k}), Cardinality(Names))

\* Target::inputs and Target::dependencies, on a finalized target.
\* Target::inputs and Target::dependencies: the lists of an UnMixed field, a
\* panic on a field that is still Mixed.
inputs(self) ==
    IF self.dependencies.kind = "UnMixed"
    THEN self.dependencies.inputs
    ELSE [panicked |-> TRUE, message |-> "Input files are still mixed!"]

dependencies(self) ==
    IF self.dependencies.kind = "UnMixed"
    THEN self.dependencies.dependencies
    ELSE [panicked |-> TRUE, message |-> "Dependencies are still mixed!"]

\* The dependency the try_fold of update visits at its i-th turn, taken from
\* the end of the list.
DepAtReversed(self, i) == dependencies(self)[Len(dependencies(self)) + 1 - i]

\* update called on the target itself instead of on its dependency.
DepAtSelf(self, i) == self.name

\* The dependency the try_fold of update visits at its i-th turn.
DepAt(self, i) == dependencies(self)[i]

\* The closure of the try_fold: |r| res || r.
Fold(res, r) == res \/ r

\* What the file system holds for a path whose metadata cannot be read
\* although the path may exist (an io::Error other than NotFound); 0 stands
\* for a path that does not exist.
Unreadable == 0 - 1

\* fs::metadata(p).and_then(|md| md.modified()).ok()
Modified(f, p) == IF f[p] \in {0, Unreadable} THEN None ELSE Some(f[p])

\* fs::metadata(p).unwrap() succeeds on every input.
InputsReadable(self, f) ==
    \A k \in 1..Len(inputs(self)) : Modified(f, inputs(self)[k]) # None

\* Iterator::max
MaxOf(s) ==
    IF s = <<>> THEN None
    ELSE Some(CHOOSE m \in {s[k] : k \in 1..Len(s)} :
                  \A k \in 1..Len(s) : s[k] <= m)

\* The comparison with its operands exchanged.
OlderSwapped(o, latest) == latest < o

\* |o| o < latest
Older(o, latest) == o < latest

\* The test asking every output, not any, to be missing or old.
OutOfDateAll(self, f) ==
    LET times  == [k \in 1..Len(inputs(self)) |-> Modified(f, inputs(self)[k])[1]]
        latest == MaxOf(times)
    IN  IF latest = None THEN TRUE
        ELSE \A k \in 1..Len(self.outputs) :
                LET o == Modified(f, self.outputs[k])
                IN  IF o = None THEN TRUE ELSE Older(o[1], latest[1])

\* The modification-time test of update, inputs readable.
OutOfDate(self, f) ==
    LET times  == [k \in 1..Len(inputs(self)) |-> Modified(f, inputs(self)[k])[1]]
        latest == MaxOf(times)
    IN  IF latest = None THEN TRUE
        ELSE \E k \in 1..Len(self.outputs) :
                LET o == Modified(f, self.outputs[k])
                IN  IF o = None THEN TRUE ELSE Older(o[1], latest[1])

\* The condition that looks at the modification times even when a
\* dependency was updated.
NeedsUpdateByTime(updated, self, f) ==
    IF ~InputsReadable(self, f) THEN [panicked |-> TRUE, forced |-> FALSE]
    ELSE [panicked |-> FALSE, forced |-> OutOfDate(self, f)]

\* The condition of update: a dependency was updated or, only if none was,
\* the modification times say so; unwrap panics on an input without one.
NeedsUpdate(updated, self, f) ==
    IF updated THEN [panicked |-> FALSE, forced |-> TRUE]
    ELSE IF ~InputsReadable(self, f) THEN [panicked |-> TRUE, forced |-> FALSE]
    ELSE [panicked |-> FALSE, forced |-> OutOfDate(self, f)]

\* The value update returns if it only reports commands it had to run.
UpdatedIfCommands(self) == self.commands # <<>>

\* The value update returns after the commands of a forced target: Ok(true).
Updated(self) == TRUE

\* ExitStatus::code() of a command line.
Code(cmd) ==
    IF cmd = "touch" THEN Some(0)
    ELSE IF cmd = "false" THEN Some(1)
    ELSE None

\* What running a command line of a target does to the file system: touch
\* writes the outputs of the target one after another, and each gets the
\* stamp the clock shows when it is written.
Effect(cmd, self, f, stamps) ==
    IF cmd = "touch"
    THEN [p \in Files |->
            IF \E k \in 1..Len(self.outputs) : self.outputs[k] = p
            THEN stamps[CHOOSE k \in 1..Len(self.outputs) : self.outputs[k] = p]
            ELSE f[p]]
    ELSE f

\* The readings the clock can show when file p is written after a write
\* stamped `latest` (0 before any write).  The clock is not bound to the
\* times the files carry and only goes on: the reading is the one of the
\* write before (the clock has not ticked since), a later one below the next
\* time another file carries, the time of a file dated later, or a reading
\* just after such a file.  update only compares times, so of the readings
\* between two neighbouring file times one stands for all, the next one up
\* for a later one, and so on: Apart leaves the room for that.
Ticks(latest, f, p) ==
    LET later == {t \in {f[q] : q \in Files \ {p}} : t > latest}
    IN  ({latest, latest + 1} \cup later \cup {t + 1 : t \in later}) \ {0}

\* The time stamps the file system can give to the outputs a command writes
\* from the k-th on, one for each in the order they are written: each is a
\* reading of the clock after the write before it.
RECURSIVE StampsFrom(_, _, _, _)
StampsFrom(outs, k, latest, f) ==
    IF k > Len(outs) THEN {<<>>}
    ELSE UNION {{<<t>> \o rest :
                    rest \in StampsFrom(outs, k + 1, t, [f EXCEPT ![outs[k]] = t])} :
                t \in Ticks(latest, f, outs[k])}

\* The time stamps of the outputs a command writes.  A command that writes
\* nothing gets no stamps.
Stamps(cmd, self, spawned, latest, f) ==
    IF spawned /\ cmd = "touch"
    THEN StampsFrom(self.outputs, 1, latest, f)
    ELSE {<<>>}

\* An exit by signal taken for a success.
ExitResultSignalOk(code) ==
    IF code = None \/ code[1] = 0 THEN None
    ELSE Some([kind |-> "Status", value |-> FALSE, status |-> code[1]])

\* .code().map_or(Err(UpdateErr::Signal), |status| if status == 0 { Ok(()) }
\* else { Err(UpdateErr::Status { status }) }): None for Ok(()), else the
\* error.
ExitResult(code) ==
    IF code = None THEN Some([kind |-> "Signal", value |-> FALSE, status |-> 0])
    ELSE IF code[1] = 0 THEN None
    ELSE Some([kind |-> "Status", value |-> FALSE, status |-> code[1]])

Map == result[1]

Ok(v) == [kind |-> "Ok", value |-> v, status |-> 0]
Err(kind, status) == [kind |-> kind, value |-> FALSE, status |-> status]

Event(ev, target, depth, n, ok) ==
    [ev |-> ev, target |-> target, depth |-> depth, n |-> n, ok |-> ok]

Frame(target) ==
    [target |-> target, i |-> 1, res |-> FALSE, running |-> FALSE, c |-> 1]

\* The finalized maps update is given: targets a, b, .. in the order
\* finalize inserted them, each depending on earlier ones only, all reached
\* from the last one, which is the one the driver asks for.
DepLists(r) == ListsUpTo({Order[k] : k \in 1..(r - 1)}, MaxDeps)
\* update looks at the newest input and at any output, so the order of a
\* file list does not matter to it: the lists are taken in one order.
FileOrder == <<"x", "y", "z">>
FileRank(p) == CHOOSE r \in 1..Len(FileOrder) : FileOrder[r] = p
FileLists ==
    {s \in ListsUpTo(Files, MaxFiles) :
        \A i, j \in 1..Len(s) : i < j => FileRank(s[i]) < FileRank(s[j])}
CmdLists == SeqsUpTo(Cmds, MaxCmds)

\* The one target of a map of one has any lists within the bounds, and only
\* its files can be unreadable, when it has no commands.  The targets of a
\* map of two read one file at most, x or y, write one at most, y or z (so
\* one can write what the other reads, and one can lack an input the other
\* has), and run one command at most, which can succeed, fail or be killed.
\* The targets of a map of three read x alone, write y alone and run one
\* command at most.
InputsFor(n) ==
    IF n = 1 THEN FileLists
    ELSE IF n = 2 THEN {<<>>, <<"x">>, <<"y">>}
    ELSE {<<>>, <<"x">>}
OutputsFor(n) ==
    IF n = 1 THEN FileLists
    ELSE IF n = 2 THEN {<<>>, <<"y">>, <<"z">>}
    ELSE {<<>>, <<"y">>}
CommandsFor(n) ==
    IF n = 1 THEN CmdLists
    ELSE IF n = 2 THEN {<<>>, <<"touch">>, <<"false">>, <<"kill">>}
    ELSE {<<>>, <<"touch">>, <<"false">>}

\* The files some target of the map reads or writes.
Named(m) ==
    UNION {{t.outputs[k] : k \in 1..Len(t.outputs)}
           \cup {t.dependencies.inputs[k] : k \in 1..Len(t.dependencies.inputs)} :
           t \in Values(m)}

\* update compares modification times and never computes with them, so only
\* their order matters: the files update starts on are dated at levels
\* 1..MaxTime, taken without gaps below the highest.
Recent(l) ==
    LET used == {l[p] : p \in Files} \ {0, Unreadable}
    IN  \A v \in used : \A w \in v..MaxTime : w \in used

\* No more files are written by the update calls of one behaviour than this:
\* each call of the driver enters a target at most MaxTargets + 1 times with
\* commands to run, MaxCmds commands each, MaxFiles outputs each.
Writes == (MaxCalls + 1) * (MaxTargets + 1) * MaxCmds * MaxFiles

\* The times of two neighbouring levels are this far apart: every write can
\* get a stamp of its own between them, and below the lowest.
Apart == Writes + 1

\* The modification time of a file dated at level k; 0 (no such file) and
\* Unreadable stay what they are.
Date(k) == IF k > 0 THEN k * Apart ELSE k
Dated(l) == [p \in Files |-> Date(l[p])]

MapOf(n, dp, ip, op, cm) ==
    [k \in Names |->
        IF Rank(k) <= n
        THEN Some(Target(Rank(k), k, op[Rank(k)],
                         UnMixed(ip[Rank(k)], dp[Rank(k)]), cm[Rank(k)]))
        ELSE None]

InitUpdate ==
    /\ \E n \in 1..Cardinality(Names) :
         \E dp \in {d \in [1..n -> ListsUpTo(Names, MaxDeps)] :
                        \A r \in 1..n : d[r] \in DepLists(r)} :
         \E ip \in [1..n -> InputsFor(n)] :
         \E op \in [1..n -> OutputsFor(n)] :
         \E cm \in [1..n -> CommandsFor(n)] :
            /\ post = MapOf(n, dp, ip, op, cm)
            /\ top = Order[n]
    /\ \A k \in Keys(post) :
          k = top \/ k \in MapClosure(post, MapSuccessors(post, {top}), Cardinality(Names))
    /\ result = Some(post)
    /\ input = <<>>
    /\ list = <<>>
    /\ path = <<>>
    /\ stack = <<>>
    /\ outcome = "Ok"
    /\ culprit = ""
    /\ \E l \in [Files -> Unreadable..MaxTime] : Recent(l) /\ fs = Dated(l)
    /\ \A p \in Files \ Named(post) : fs[p] = 0
    /\ (Cardinality(Keys(post)) > 1 \/ post[top][1].commands # <<>>) =>
            \A p \in Files : fs[p] # Unreadable
    /\ now = 0
    /\ ustack = <<>>
    /\ trace = <<>>
    /\ checks = <<>>
    /\ returned = None
    /\ calls = 0
    /\ done = <<>>
    /\ Idle

\* update returns `value` from the frame on top of the stack: to the driver,
\* or into the fold of the caller.
Return(value) ==
    LET f == ustack[Len(ustack)]
        d == Len(ustack)
    IN  /\ trace' = Append(trace, Event("ret", f.target, d, 0, value))
        /\ IF d = 1
           THEN /\ ustack' = <<>>
                /\ returned' = Some(Ok(value))
           ELSE /\ ustack' = [SubSeq(ustack, 1, d - 1) EXCEPT
                                ![d - 1].res = Fold(ustack[d - 1].res, value)]
                /\ UNCHANGED returned

\* An error of a dependency taken for "not updated": only the failing call
\* ends, its caller goes on.
FailSwallowed(err) ==
    IF Len(ustack) = 1
    THEN /\ returned' = Some(err)
         /\ ustack' = <<>>
    ELSE /\ ustack' = SubSeq(ustack, 1, Len(ustack) - 1)
         /\ UNCHANGED returned

\* An Err leaves update through the `?` of every call on the stack: each
\* try_fold stops and the driver gets the error.
Fail(err) ==
    /\ returned' = Some(err)
    /\ ustack' = <<>>

\* The driver calls update on the requested target of the map.
UpdateCall ==
    /\ result # None
    /\ ustack = <<>>
    /\ calls < MaxCalls
    /\ calls > 0 => returned # None /\ returned[1].kind # "Panic"
    /\ calls' = calls + 1
    /\ ustack' = <<Frame(top)>>
    /\ trace' = <<Event("call", top, 1, 0, TRUE)>>
    /\ checks' = <<>>
    /\ returned' = None
    /\ UNCHANGED <<top, fs, now, done>>
    /\ UNCHANGED <<fvars, svars, pvars>>

\* update: one turn of the try_fold, list.get(dep).unwrap().update(list).
UpdateDep ==
    /\ ustack # <<>>
    /\ LET f    == ustack[Len(ustack)]
           self == Map[f.target][1]
       IN  /\ ~f.running
           /\ IF self.dependencies.kind # "UnMixed"
              THEN \* self.dependencies() panics before anything is done
                   /\ returned' = Some(Err("Panic", 0))
                   /\ ustack' = <<>>
                   /\ UNCHANGED trace
              ELSE /\ f.i <= Len(dependencies(self))
                   /\ LET dep == DepAt(self, f.i)
                      IN  IF Map[dep] = None
                          THEN /\ returned' = Some(Err("Panic", 0))
                               /\ ustack' = <<>>
                               /\ UNCHANGED trace
                          ELSE /\ ustack' = Append([ustack EXCEPT
                                                      ![Len(ustack)].i = f.i + 1],
                                                   Frame(dep))
                               /\ trace' = Append(trace,
                                        Event("call", dep, Len(ustack) + 1, 0, TRUE))
                               /\ UNCHANGED returned
    /\ UNCHANGED <<top, fs, now, checks, calls, done>>
    /\ UNCHANGED <<fvars, svars, pvars>>

\* update: the dependencies are done; decide whether the commands must run.
UpdateCheck ==
    /\ ustack # <<>>
    /\ LET f    == ustack[Len(ustack)]
           self == Map[f.target][1]
       IN  /\ ~f.running
           /\ self.dependencies.kind = "UnMixed"
           /\ f.i > Len(dependencies(self))
           /\ IF NeedsUpdate(f.res, self, fs).panicked
              THEN /\ returned' = Some(Err("Panic", 0))
                   /\ ustack' = <<>>
                   /\ UNCHANGED <<trace, checks>>
              ELSE LET forced == NeedsUpdate(f.res, self, fs).forced
                   IN  /\ checks' = Append(checks,
                                [target |-> f.target, depth |-> Len(ustack),
                                 updated |-> f.res, forced |-> forced, fs |-> fs])
                       /\ IF forced
                          THEN /\ ustack' = [ustack EXCEPT ![Len(ustack)].running = TRUE]
                               /\ UNCHANGED <<trace, returned>>
                          ELSE Return(FALSE)
    /\ UNCHANGED <<top, fs, now, calls, done>>
    /\ UNCHANGED <<fvars, svars, pvars>>

\* update: run the next command; a failure ends every update on the stack.
\* cmd.status() is an Err when the shell could not be started.
UpdateCommand ==
    /\ ustack # <<>>
    /\ LET f    == ustack[Len(ustack)]
           self == Map[f.target][1]
       IN  /\ f.running
           /\ f.c <= Len(self.commands)
           /\ \E spawned \in BOOLEAN :
              \E stamps \in Stamps(self.commands[f.c], self, spawned, now, fs) :
                LET cmd  == self.commands[f.c]
                    code == Code(cmd)
                IN  /\ trace' = Append(trace,
                          Event("cmd", f.target, Len(ustack), f.c,
                                spawned /\ code = Some(0)))
                    /\ fs' = IF spawned THEN Effect(cmd, self, fs, stamps) ELSE fs
                    /\ now' = IF stamps = <<>> THEN now ELSE stamps[Len(stamps)]
                    /\ IF ~spawned
                       THEN Fail(Err("Io", 0))
                       ELSE IF ExitResult(code) # None
                       THEN Fail(ExitResult(code)[1])
                       ELSE /\ ustack' = [ustack EXCEPT ![Len(ustack)].c = f.c + 1]
                            /\ UNCHANGED returned
    /\ UNCHANGED <<top, checks, calls, done>>
    /\ UNCHANGED <<fvars, svars, pvars>>

\* update: every command exited with 0.
UpdateDone ==
    /\ ustack # <<>>
    /\ LET f    == ustack[Len(ustack)]
           self == Map[f.target][1]
       IN  /\ f.running
           /\ f.c > Len(self.commands)
           /\ Return(Updated(self))
    /\ UNCHANGED <<top, fs, now, checks, calls, done>>
    /\ UNCHANGED <<fvars, svars, pvars>>

\* The driver, after an update that returned Ok, runs update on the same
\* target once more, nothing else having touched the files; what the first
\* run did is kept in `done`.
UpdateAgain ==
    /\ result # None
    /\ ustack = <<>>
    /\ calls = MaxCalls
    /\ returned # None /\ returned[1].kind = "Ok"
    /\ calls' = calls + 1
    /\ done' = Append(done, [returned |-> returned[1], trace |-> trace,
                             checks |-> checks, fs |-> fs])
    /\ ustack' = <<Frame(top)>>
    /\ trace' = <<Event("call", top, 1, 0, TRUE)>>
    /\ checks' = <<>>
    /\ returned' = None
    /\ UNCHANGED <<top, fs, now>>
    /\ UNCHANGED <<fvars, svars, pvars>>

NextUpdate ==
    \/ UpdateCall
    \/ UpdateDep
    \/ UpdateCheck
    \/ UpdateCommand
    \/ UpdateDone

\* update of the requested target of every finalized map within the bounds.
SpecUpdate == InitUpdate /\ [][NextUpdate]_vars

\* The diamond: d depends on b and c, which both depend on a.  a reads x or
\* nothing and writes y or nothing; b and c read y, b may write x, c writes
\* z; d reads z.
DiamondOf(ia, oa, ca, ob, cb, cc) ==
    [k \in Names \cup {"d"} |->
        IF k = "a" THEN Some(Target(1, "a", oa, UnMixed(ia, <<>>), ca))
        ELSE IF k = "b" THEN Some(Target(2, "b", ob, UnMixed(<<"y">>, <<"a">>), cb))
        ELSE IF k = "c" THEN Some(Target(3, "c", <<"z">>, UnMixed(<<"y">>, <<"a">>), cc))
        ELSE Some(Target(4, "d", <<>>, UnMixed(<<"z">>, <<"b", "c">>), <<>>))]

InitDiamond ==
    /\ \E ia \in {<<>>, <<"x">>} : \E oa \in {<<>>, <<"y">>} :
       \E ca \in SeqsUpTo({"touch", "false"}, MaxCmds) :
       \E ob \in {<<>>, <<"x">>} :
       \E cb \in {<<>>, <<"touch">>} : \E cc \in {<<>>, <<"touch">>} :
            post = DiamondOf(ia, oa, ca, ob, cb, cc)
    /\ top = "d"
    /\ result = Some(post)
    /\ input = <<>>
    /\ list = <<>>
    /\ path = <<>>
    /\ stack = <<>>
    /\ outcome = "Ok"
    /\ culprit = ""
    /\ \E l \in [Files -> 0..MaxTime] : Recent(l) /\ fs = Dated(l)
    /\ now = 0
    /\ ustack = <<>>
    /\ trace = <<>>
    /\ checks = <<>>
    /\ returned = None
    /\ calls = 0
    /\ done = <<>>
    /\ Idle

\* One update of the top of every diamond within the bounds.
SpecDiamond == InitDiamond /\ [][NextUpdate]_vars

\* The same maps with every file readable, updated and then updated again.
InitTwice ==
    /\ InitUpdate
    /\ \A p \in Files : fs[p] # Unreadable

NextTwice ==
    \/ UpdateCall
    \/ UpdateDep
    \/ UpdateCheck
    \/ UpdateCommand
    \/ UpdateDone
    \/ UpdateAgain

SpecTwice == InitTwice /\ [][NextTwice]_vars

\* ------------------------------------------------------------------ split

\* finalize_list and update not running.
Quiet ==
    /\ input = <<>>
    /\ list = <<>>
    /\ post = EmptyMap
    /\ path = <<>>
    /\ stack = <<>>
    /\ outcome = "Ok"
    /\ culprit = ""
    /\ result = None
    /\ top = ""
    /\ now = 0
    /\ ustack = <<>>
    /\ trace = <<>>
    /\ checks = <<>>
    /\ returned = None
    /\ calls = 0
    /\ done = <<>>

\* What a predicate answers for a name: None (no target), Some(None) (a
\* target of that name) or Some(Some(n)) (a target whose primary name is n).
Answers == {None, Some(None), Some(Some("b")), Some(Some("c"))}

\* The MixedDeps values split is applied to; names may repeat.
SplitForms ==
    {Mixed(s) : s \in SeqsUpTo(Strings, MaxSplit)}
    \cup {UnMixed(i, d) : i \in {<<>>, <<"f">>, <<"a", "f">>},
                          d \in SeqsUpTo(Strings, MaxSplit)}

InitSplit ==
    /\ Quiet
    /\ fs = [p \in Files |-> 0]
    /\ splitSelf \in SplitForms
    /\ splitPredicate \in [Strings -> Answers]
    /\ splitResult = None
    /\ text = <<>>
    /\ parsed = None
    /\ held = None
    /\ reading = None
    /\ mtimes = None
    /\ reqs = None

\* self.split(predicate)
Split ==
    /\ splitResult = None
    /\ splitResult' = Some(split(splitSelf, splitPredicate))
    /\ UNCHANGED <<splitSelf, splitPredicate>>
    /\ UNCHANGED <<fvars, uvars, pvars>>

NextSplit == Split

\* split on every list and predicate within the bounds.
SpecSplit == InitSplit /\ [][NextSplit]_vars

\* --------------------------------------------------------- File::from_str

\* The names of the rules of a document, in the order it lists them.
RuleNames == <<"main", "lib", "test">>

\* RuleData: what a well-formed document gives for one rule.
RuleData(cmds, ins, outs) == [cmds |-> cmds, inputs |-> ins, outputs |-> outs]

RuleDatas ==
    {RuleData(<<"touch">>, i, o) : i \in ListsUpTo(Files, MaxFiles),
                                  o \in {<<>>, <<"z">>}}

\* A well-formed document: a mapping from rule name to cmds / ins / outs,
\* written as the list of its entries; d gives the data of its n rules.
Document(n, d) == [k \in 1..n |-> [name |-> RuleNames[k], data |-> d[k]]]

\* serde_yaml::from_str::<HashMap<String, RuleData>>(text): the entries of
\* the document keyed by rule name.
FromYaml(doc) ==
    [nm \in {doc[k].name : k \in 1..Len(doc)} |->
        (CHOOSE k \in 1..Len(doc) : doc[k].name = nm) ]

\* fs::metadata(path).and_then(|m| m.modified()) with its map_err: the
\* modification time, or NoFile for NotFound, or Other.
InputTime(f, p) ==
    IF f[p] = 0 THEN [kind |-> "NoFile", path |-> p, time |-> 0]
    ELSE IF f[p] = Unreadable THEN [kind |-> "Other", path |-> "", time |-> 0]
    ELSE [kind |-> "Ok", path |-> p, time |-> f[p]]

\* fs::metadata(p).ok().map(|m| m.modified().ok()).unwrap_or(None)
OutputTime(f, p) == IF f[p] \in {0, Unreadable} THEN None ELSE Some(f[p])

\* Rule::new: the rule, or the error of the first input that has no
\* modification time.
RuleNew(cmds, inps, outs, f) ==
    LET bad == {k \in 1..Len(inps) : InputTime(f, inps[k]).kind # "Ok"}
    IN  IF bad # {}
        THEN LET k == CHOOSE k \in bad : \A j \in bad : k <= j
             IN  [kind |-> InputTime(f, inps[k]).kind,
                  path |-> InputTime(f, inps[k]).path, rule |-> <<>>]
        ELSE [kind |-> "Ok", path |-> "",
              rule |-> <<[cmds |-> cmds,
                          inps |-> [k \in 1..Len(inps) |->
                                      <<inps[k], InputTime(f, inps[k]).time>>],
                          outs |-> [k \in 1..Len(outs) |->
                                      <<outs[k], OutputTime(f, outs[k])>>]]>>]

\* Rule::from_data
RuleFromData(data, f) == RuleNew(data.cmds, data.inputs, data.outputs, f)

\* File::from_str: every result it can give.  The rules are built in the
\* iteration order of a HashMap, which is not fixed, and collect stops at the
\* first error it meets: any failing rule may be the one reported.
FromStr(doc, f) ==
    LET data   == FromYaml(doc)
        built  == [nm \in DOMAIN data |-> RuleFromData(doc[data[nm]].data, f)]
        failed == {nm \in DOMAIN data : built[nm].kind # "Ok"}
    IN  IF failed = {}
        THEN {[kind |-> "Ok", path |-> "",
               rules |-> [nm \in DOMAIN data |-> built[nm].rule[1]]]}
        ELSE {[kind |-> built[nm].kind, path |-> built[nm].path,
               rules |-> <<>>] : nm \in failed}

InitParse ==
    /\ Quiet
    /\ fs \in [Files -> Unreadable..MaxTime]
    /\ \E n \in 0..MaxRules : \E d \in [1..n -> RuleDatas] :
            text = Document(n, d)
    /\ parsed = None
    /\ held = None
    /\ reading = None
    /\ mtimes = None
    /\ reqs = None
    /\ splitSelf = Mixed(<<>>)
    /\ splitPredicate = [dep \in Strings |-> None]
    /\ splitResult = None

\* File::from_str(text)
FromStrCall ==
    /\ parsed = None
    /\ \E r \in FromStr(text, fs) : parsed' = Some(r)
    /\ UNCHANGED <<text, held, reading, mtimes, reqs>>
    /\ UNCHANGED <<fvars, uvars, svars>>

NextParse == FromStrCall

\* File::from_str on every document and file system within the bounds.
SpecParse == InitParse /\ [][NextParse]_vars

\* ------------------------------------------------------ Rule::update_reqs

\* Rule::needs_update: no inputs, or an output that is missing or older than
\* the newest input.
RuleNeedsUpdate(rule) ==
    IF rule.inps = <<>> THEN TRUE
    ELSE LET inp_mt == MaxOf([k \in 1..Len(rule.inps) |-> rule.inps[k][2]])[1]
         IN  \E k \in 1..Len(rule.outs) :
                \/ rule.outs[k][2] = None
                \/ rule.outs[k][2][1] < inp_mt

\* The paths of the inputs modified after mt, in the order of the rule.
NewerInputs(rule, mt) ==
    LET newer == SelectSeq(rule.inps, LAMBDA e : e[2] > mt)
    IN  [k \in 1..Len(newer) |-> newer[k][1]]

\* Rule::update_reqs: for each output its path, its time, and
\* time.map(|mt| the inputs newer than mt).
UpdateReqs(rule) ==
    [k \in 1..Len(rule.outs) |->
        [path |-> rule.outs[k][1],
         time |-> rule.outs[k][2],
         inps |-> IF rule.outs[k][2] = None THEN None
                  ELSE Some(NewerInputs(rule, rule.outs[k][2][1]))]]

\* UpdateReq::needs_update: self.time.is_none() || self.inps.is_some()
UpdateReqNeedsUpdate(req) == req.time = None \/ req.inps # None

\* Rule::update_mtimes, one turn of its loops: the k-th file of the rule,
\* inputs first and outputs after them, is looked up in the file system as
\* it is at that moment.  An input without a modification time ends the
\* call with the io::Error (the `?`), the rule being consumed; an output
\* without one gets None.
UpdateMtimesTurn(rule, k, f) ==
    IF k <= Len(rule.inps)
    THEN LET p == rule.inps[k][1]
         IN  IF f[p] \in {0, Unreadable}
             THEN [kind |-> IF f[p] = 0 THEN "NotFound" ELSE "Other",
                   rule |-> None]
             ELSE [kind |-> "Ok",
                   rule |-> Some([rule EXCEPT !.inps[k] = <<p, f[p]>>])]
    ELSE LET j == k - Len(rule.inps)
             p == rule.outs[j][1]
         IN  [kind |-> "Ok",
              rule |-> Some([rule EXCEPT !.outs[j] = <<p, OutputTime(f, p)>>])]

\* The number of files update_mtimes and Rule::new read for a rule.
Reads(rule) == Len(rule.inps) + Len(rule.outs)

\* What Rule::new gives when every input had a modification time as it was
\* read: the inputs with the times ti and the outputs with the times to.
RuleOfTimes(data, ti, to) ==
    [cmds |-> data.cmds,
     inps |-> [k \in 1..Len(data.inputs) |-> <<data.inputs[k], ti[k]>>],
     outs |-> [k \in 1..Len(data.outputs) |-> <<data.outputs[k], to[k]>>]]

\* Rule::new gave a rule, for every rule data within the bounds.  It reads
\* the files one after another, each as the file system is at that moment,
\* and the files can change in between: each time held is any the file could
\* have when it was read, and the file system by now is any.
InitRule ==
    /\ Quiet
    /\ fs \in [Files -> Unreadable..MaxTime]
    /\ \E d \in RuleDatas :
       \E ti \in [1..Len(d.inputs) -> 1..MaxTime] :
       \E to \in [1..Len(d.outputs) -> {None} \cup {Some(t) : t \in 1..MaxTime}] :
            held = Some(RuleOfTimes(d, ti, to))
    /\ reading = None
    /\ mtimes = None
    /\ reqs = None
    /\ text = <<>>
    /\ parsed = None
    /\ splitSelf = Mixed(<<>>)
    /\ splitPredicate = [dep \in Strings |-> None]
    /\ splitResult = None

\* Something else than the program writes, removes or locks away a file
\* while the rule is held or update_mtimes is reading.
FilesChange ==
    /\ held # None \/ reading # None
    /\ \E p \in Files : \E v \in Unreadable..MaxTime :
            /\ v # fs[p]
            /\ fs' = [fs EXCEPT ![p] = v]
    /\ UNCHANGED <<top, now, ustack, trace, checks, returned, calls, done>>
    /\ UNCHANGED <<fvars, svars, pvars>>

\* rule.update_mtimes(): takes the rule by value, so no UpdateReq borrowed
\* from it is alive any more.
UpdateMtimesCall ==
    /\ held # None
    /\ reading' = Some([rule |-> held[1], read |-> 0])
    /\ held' = None
    /\ mtimes' = None
    /\ reqs' = None
    /\ UNCHANGED <<text, parsed>>
    /\ UNCHANGED <<fvars, uvars, svars>>

\* update_mtimes reads the time of its next file; an input without one ends
\* the call, and the rule is gone.
UpdateMtimesRead ==
    /\ reading # None
    /\ reading[1].read < Reads(reading[1].rule)
    /\ LET r == UpdateMtimesTurn(reading[1].rule, reading[1].read + 1, fs)
       IN  IF r.kind = "Ok"
           THEN /\ reading' = Some([rule |-> r.rule[1],
                                    read |-> reading[1].read + 1])
                /\ UNCHANGED mtimes
           ELSE /\ reading' = None
                /\ mtimes' = Some(r.kind)
    /\ UNCHANGED <<text, parsed, held, reqs>>
    /\ UNCHANGED <<fvars, uvars, svars>>

\* update_mtimes has read every file: Ok(self) gives the rule back.
UpdateMtimesReturn ==
    /\ reading # None
    /\ reading[1].read = Reads(reading[1].rule)
    /\ held' = Some(reading[1].rule)
    /\ mtimes' = Some("Ok")
    /\ reading' = None
    /\ UNCHANGED <<text, parsed, reqs>>
    /\ UNCHANGED <<fvars, uvars, svars>>

\* update_reqs of the rule held, and needs_update of each of the requirements
\* it gives, next to needs_update of the rule.
UpdateReqsCall ==
    /\ held # None
    /\ LET rule == held[1]
           res  == UpdateReqs(rule)
       IN  reqs' = Some([rule |-> rule,
                         res |-> res,
                         needs |-> [k \in 1..Len(res) |->
                                       UpdateReqNeedsUpdate(res[k])],
                         whole |-> RuleNeedsUpdate(rule)])
    /\ UNCHANGED <<text, parsed, held, reading, mtimes>>
    /\ UNCHANGED <<fvars, uvars, svars>>

NextRule ==
    \/ FilesChange
    \/ UpdateMtimesCall
    \/ UpdateMtimesRead
    \/ UpdateMtimesReturn
    \/ UpdateReqsCall

\* A rule made by Rule::new, then update_mtimes and update_reqs on it in any
\* order while the files change, also between two reads of update_mtimes,
\* for every rule data and file system within the bounds.
SpecRule == InitRule /\ [][NextRule]_vars

\* ---------------------------------------------------------------- claims

Finished == outcome # "running"

\* The names a raw target gives for what it depends on.
DeclaredNames(t) ==
    LET s == IF t.dependencies.kind = "Mixed" THEN t.dependencies.names
             ELSE t.dependencies.dependencies
    IN  {s[k] : k \in 1..Len(s)}

\* Raw target i names raw target j as a dependency.
Edge(inp, i, j) == \E n \in DeclaredNames(inp[i]) : has_name(inp[j], n)

Successors(inp, S) == {j \in 1..Len(inp) : \E i \in S : Edge(inp, i, j)}

RECURSIVE Closure(_, _, _)
Closure(inp, S, k) ==
    IF k = 0 THEN S ELSE Closure(inp, S \cup Successors(inp, S), k - 1)

\* The raw targets reached from i along one or more edges.
ReachedFrom(inp, i) == Closure(inp, Successors(inp, {i}), Len(inp))

OnCycle(inp, i) == i \in ReachedFrom(inp, i)
HasCycle(inp) == \E i \in 1..Len(inp) : OnCycle(inp, i)

DistinctNames(inp) ==
    \A i, j \in 1..Len(inp) : i # j => inp[i].name # inp[j].name

AllResolvable(inp) ==
    \A i \in 1..Len(inp) : \A n \in DeclaredNames(inp[i]) :
        \E j \in 1..Len(inp) : has_name(inp[j], n)

InputNames(inp) == {inp[i].name : i \in 1..Len(inp)}

\* C1 (as claimed): a raw list with a dependency chain A -> ... -> A makes
\* finalize_list fail with a Cycle error naming a member of the cycle.
C1_CycleIsReported ==
    (Finished /\ HasCycle(input)) =>
        /\ outcome = "Cycle"
        /\ \E i \in 1..Len(input) : OnCycle(input, i) /\ input[i].name = culprit

\* C2: an acyclic raw list with pairwise-distinct names whose dependency
\* names all refer to targets is finalized successfully, and the keys of the
\* returned map are the names of the input targets.
C2_AcyclicListSucceeds ==
    (Finished /\ ~HasCycle(input) /\ DistinctNames(input)
              /\ AllResolvable(input)) =>
        /\ outcome = "Ok"
        /\ result # None
        /\ Keys(result[1]) = InputNames(input)

\* C2 witness: three targets, one of them resolved (UnMixed) with two
\* dependencies, finalized into a map.
C2_Witness ==
    /\ outcome = "Ok"
    /\ Len(input) = 3
    /\ ~HasCycle(input) /\ DistinctNames(input) /\ AllResolvable(input)
    /\ \E i \in 1..3 : /\ input[i].dependencies.kind = "UnMixed"
                       /\ Cardinality(DeclaredNames(input[i])) = 2
    /\ \E i \in 1..3 : /\ input[i].dependencies.kind = "Mixed"
                       /\ DeclaredNames(input[i]) # {}

\* C3 (as claimed): a raw list with two targets of the same name fails with
\* DuplicateName and with no other kind of error.
C3_OnlyDuplicateName ==
    (Finished /\ ~DistinctNames(input)) => outcome = "DuplicateName"

Duplicated(inp) ==
    {inp[i].name : i \in {i \in 1..Len(inp) :
                            \E j \in 1..Len(inp) : j # i /\ inp[j].name = inp[i].name}}

\* C3 (amended): a raw list with two targets of the same name always fails;
\* the failure is DuplicateName unless a Cycle failure on a duplicated name
\* or an unresolved dependency of an UnMixed list comes first.
C3_DuplicateListFails ==
    (Finished /\ ~DistinctNames(input)) =>
        /\ outcome \in {"DuplicateName", "Cycle", "UnresolvedDependency"}
        /\ result = None
        /\ outcome = "DuplicateName" => culprit \in Duplicated(input)
        /\ outcome = "Cycle" => culprit \in Duplicated(input)
        /\ outcome = "UnresolvedDependency" =>
              \E i \in 1..Len(input) :
                  /\ input[i].dependencies.kind = "UnMixed"
                  /\ culprit \in DeclaredNames(input[i])

\* C3 witness: a list of three with a duplicated name and a dependency edge
\* that failed with DuplicateName.
C3_Witness ==
    /\ outcome = "DuplicateName"
    /\ Len(input) = 3
    /\ \E i \in 1..3 : DeclaredNames(input[i]) # {}
    /\ culprit \in Duplicated(input)

\* C4: in a returned map every resolved dependency name is a key, so update
\* on a target of the map never looks up a missing name, at any depth.
C4_DependenciesAreKeys ==
    result # None =>
        /\ \A t \in Values(result[1]) : DepsOf(t) \subseteq Keys(result[1])
        /\ \A k \in Keys(result[1]) : LookedUp(result[1], k) \subseteq Keys(result[1])

\* C4 witness: a returned map with a chain of three targets, in which a Mixed
\* list also held a name that is no target.
C4_Witness ==
    /\ result # None
    /\ \E k \in Keys(result[1]) : Cardinality(LookedUp(result[1], k)) = 2
    /\ \E t \in Values(result[1]) : t.dependencies.inputs \in {<<"c">>, <<"b">>}

\* C5: a returned map is acyclic: no target reaches itself through the
\* resolved dependencies.
C5_MapIsAcyclic ==
    result # None => \A k \in Keys(result[1]) : k \notin LookedUp(result[1], k)

\* C5 witness: a map was returned although the raw list had a cycle of names.
C5_Witness ==
    /\ result # None
    /\ HasCycle(input)
    /\ Len(input) = 3
    /\ \E t \in Values(result[1]) : Len(t.dependencies.dependencies) = 2

\* C6: finalization is all-or-nothing: no map is returned before the end or
\* on failure, and a returned map holds every raw target of the input exactly
\* once, under its name, in resolved form.
C6_AllOrNothing ==
    /\ outcome # "Ok" => result = None
    /\ outcome = "Ok" =>
          /\ result = Some(post)
          /\ list = <<>> /\ stack = <<>>
          /\ Cardinality(Keys(post)) = Len(input)
          /\ {t.id : t \in Values(post)} = 1..Len(input)
          /\ \A k \in Keys(post) :
                /\ post[k][1].name = k
                /\ input[post[k][1].id].name = k
                /\ post[k][1].dependencies.kind = "UnMixed"

\* C6 witness: a list of three raw targets, some Mixed, moved into the map
\* by a recursive call.
C6_Witness ==
    /\ outcome = "Ok"
    /\ Len(input) = 3
    /\ \E i \in 1..3 : input[i].dependencies.kind = "Mixed"
    /\ \E t \in Values(post) : /\ t.id # 3
                               /\ 3 \in ReachedFrom(input, t.id)
                               /\ t.dependencies.dependencies # <<>>

\* The target the driver asked for, and what the current update call did at
\* its own level: its staleness decision, the commands it ran, the calls it
\* made on its dependencies and what they returned.
Asked == Map[top][1]
OwnChecks == SelectSeq(checks, LAMBDA c : c.depth = 1)
OwnCommands == SelectSeq(trace, LAMBDA e : e.ev = "cmd" /\ e.depth = 1)
DepCalls == SelectSeq(trace, LAMBDA e : e.ev = "call" /\ e.depth = 2)
DepReturns == SelectSeq(trace, LAMBDA e : e.ev = "ret" /\ e.depth = 2)

\* Every command of the asked target ran once, in list order, and exited 0.
AllCommandsRan ==
    /\ Len(OwnCommands) = Len(Asked.commands)
    /\ \A k \in 1..Len(OwnCommands) : OwnCommands[k].n = k /\ OwnCommands[k].ok

\* C7 (as claimed): update(T) returns Ok(true) iff at least one command of T
\* itself was executed, and Ok(false) iff none was and no error occurred.
C7_TrueIffCommandExecuted ==
    returned # None =>
        /\ (returned[1].kind = "Ok" /\ returned[1].value) <=> Len(OwnCommands) >= 1
        /\ (returned[1].kind = "Ok" /\ ~returned[1].value)
              <=> (Len(OwnCommands) = 0 /\ returned[1].kind = "Ok")

\* C7 (amended): update(T) returns Ok(true) iff the update of T was needed
\* and every command of T ran and exited 0 (none at all when T has no
\* commands); it returns Ok(false) iff the update was not needed, and then no
\* command of T ran.
C7_TrueIffUpdateNeeded ==
    returned # None =>
        LET r      == returned[1]
            needed == OwnChecks # <<>> /\ OwnChecks[1].forced
        IN  /\ (r.kind = "Ok" /\ r.value) <=> (needed /\ AllCommandsRan)
            /\ (r.kind = "Ok" /\ ~r.value) <=> (OwnChecks # <<>> /\ ~needed)
            /\ (r.kind = "Ok" /\ ~r.value) => OwnCommands = <<>>

\* C7 witness: Ok(true) from a target without commands, after a dependency
\* ran a command of its own.
C7_Witness ==
    /\ returned # None
    /\ returned[1] = Ok(TRUE)
    /\ Asked.commands = <<>>
    /\ \E k \in 1..Len(trace) : trace[k].ev = "cmd" /\ trace[k].depth = 2

\* The commands of the asked target ran in list order up to the first that
\* did not exit 0.
CommandsRanToFirstFailure ==
    /\ \A k \in 1..Len(OwnCommands) :
          /\ OwnCommands[k].n = k
          /\ k < Len(OwnCommands) => OwnCommands[k].ok
    /\ \/ Len(OwnCommands) = Len(Asked.commands)
       \/ Len(OwnCommands) > 0 /\ ~OwnCommands[Len(OwnCommands)].ok

\* C8: when some dependency of T returned true and none failed, T is forced
\* whatever its own modification times are: its commands run and, if they
\* all exit 0, update(T) returns Ok(true).
C8_UpdatedDependencyForces ==
    /\ \A k \in 1..Len(checks) : checks[k].updated => checks[k].forced
    /\ (/\ returned # None
        /\ Len(DepReturns) = Len(dependencies(Asked))
        /\ \E k \in 1..Len(DepReturns) : DepReturns[k].ok) =>
            /\ returned[1].kind # "Panic"
            /\ CommandsRanToFirstFailure
            /\ AllCommandsRan => returned[1] = Ok(TRUE)

\* C8 witness: a dependency returned true, the target itself was up to date
\* by its own times (an output as new as its only input), its command ran,
\* and update returned Ok(true).
C8_Witness ==
    /\ returned # None
    /\ returned[1] = Ok(TRUE)
    /\ \E k \in 1..Len(DepReturns) : DepReturns[k].ok
    /\ Asked.commands # <<>>
    /\ inputs(Asked) # <<>> /\ Asked.outputs # <<>>
    /\ OwnChecks # <<>>
    /\ InputsReadable(Asked, OwnChecks[1].fs)
    /\ ~OutOfDate(Asked, OwnChecks[1].fs)

\* The rule of C9 in its own words.
InputSet(self) == {inputs(self)[k] : k \in 1..Len(inputs(self))}
OutputSet(self) == {self.outputs[k] : k \in 1..Len(self.outputs)}

\* The staleness rule of the claim: no inputs, or an output path that does
\* not exist, or an output that exists, has a modification time and is
\* strictly older than the newest input.
StaleByRule(self, f) ==
    \/ InputSet(self) = {}
    \/ \E o \in OutputSet(self) : f[o] = 0
    \/ \E o \in OutputSet(self) :
          /\ f[o] > 0
          /\ \E i \in InputSet(self) :
                /\ \A j \in InputSet(self) : f[j] <= f[i]
                /\ f[o] < f[i]

\* C9: when no dependency reported an update, T is forced exactly when it
\* has no inputs, or an output is missing, or an existing output is strictly
\* older than the newest input; an output as old as the newest input does
\* not force.
C9_StalenessRule ==
    \A k \in 1..Len(checks) :
        ~checks[k].updated =>
            (checks[k].forced <=> StaleByRule(Map[checks[k].target][1], checks[k].fs))

\* The events of the update call that starts at position p of the trace: up
\* to its return, or to the end of the trace when it has not returned.
SpanEnd(p) ==
    LET rets == {q \in (p + 1)..Len(trace) :
                    trace[q].ev = "ret" /\ trace[q].depth = trace[p].depth}
    IN  IF rets = {} THEN Len(trace)
        ELSE CHOOSE q \in rets : \A q2 \in rets : q <= q2

\* The positions, in that span, of the calls that update makes on its own
\* dependencies and of the commands it runs itself.
CallsOf(p) ==
    {q \in (p + 1)..SpanEnd(p) :
        trace[q].ev = "call" /\ trace[q].depth = trace[p].depth + 1}
CommandsOf(p) ==
    {q \in (p + 1)..SpanEnd(p) :
        trace[q].ev = "cmd" /\ trace[q].depth = trace[p].depth}

\* C10: within a call update(T) the dependencies are updated in list order,
\* each of them is called once the one before it has returned Ok, also after
\* a true, and every command of a (transitive) dependency runs before the
\* first command of T.
C10_DependenciesFirstInOrder ==
    \A p \in 1..Len(trace) :
        trace[p].ev = "call" =>
            LET deps == dependencies(Map[trace[p].target][1])
                last == SpanEnd(p)
                cs   == {q \in (p + 1)..last :
                            trace[q].ev = "call" /\ trace[q].depth = trace[p].depth + 1}
                own  == {q \in (p + 1)..last :
                            trace[q].ev = "cmd" /\ trace[q].depth = trace[p].depth}
                all  == Cardinality(cs) = Len(deps)
            IN  /\ Cardinality(cs) <= Len(deps)
                /\ \A q \in cs :
                      trace[q].target = deps[Cardinality({q2 \in cs : q2 <= q})]
                /\ \A q \in (p + 1)..last :
                      (trace[q].depth = trace[p].depth /\ trace[q].ev \in {"cmd", "ret"})
                          => all
                /\ own # {} =>
                      LET first == CHOOSE q \in own : \A q2 \in own : q <= q2
                      IN  \A q2 \in (first + 1)..last :
                              trace[q2].depth = trace[p].depth

\* C10 witness: a target with two dependencies, the first of which returned
\* true, ran its command after a command of a dependency of its dependency.
C10_Witness ==
    /\ returned # None
    /\ returned[1] = Ok(TRUE)
    /\ Len(DepReturns) = 2
    /\ DepReturns[1].ok
    /\ OwnCommands # <<>>
    /\ \E k \in 1..Len(trace) : trace[k].ev = "cmd" /\ trace[k].depth = 3

\* C11: under a forced update the commands of T run strictly in list order,
\* each once, and stop at the first that exits non-zero or ends by a
\* signal: update returns Status(code) or Signal for that command and no
\* later command of T runs.
C11_StopsAtFirstFailure ==
    LET own == OwnCommands
    IN
    /\ own # <<>> => (OwnChecks # <<>> /\ OwnChecks[1].forced)
    /\ \A k \in 1..Len(own) :
          LET cmd == Asked.commands[own[k].n]
          IN  /\ own[k].n = k
              /\ k < Len(own) => Code(cmd) = Some(0)
              /\ ~own[k].ok =>
                    /\ k = Len(own)
                    /\ trace[Len(trace)] = own[k]
                    /\ returned # None
                    /\ returned[1].kind \in {"Io", "Status", "Signal"}
              /\ (Code(cmd) # Some(0) /\ returned # None
                    /\ returned[1].kind # "Io") =>
                    IF Code(cmd) = None
                    THEN returned[1] = Err("Signal", 0)
                    ELSE returned[1] = Err("Status", Code(cmd)[1])

\* C11 witness: a forced target whose first command exited 1: update
\* returned Status(1) and the command after it did not run.
C11_Witness ==
    /\ returned # None
    /\ returned[1] = Err("Status", 1)
    /\ Asked.commands = <<"false", "touch">>
    /\ Len(OwnCommands) = 1
    /\ OwnChecks # <<>> /\ OwnChecks[1].forced

\* The command runs of the trace, and the ones that failed below the asked
\* target, that is within the update of a (transitive) dependency.
CommandRuns == {q \in 1..Len(trace) : trace[q].ev = "cmd"}
FailedBelow == {q \in CommandRuns : ~trace[q].ok /\ trace[q].depth > 1}

\* The error update gives for a command that was run and failed.
ErrorOf(cmd) ==
    {Err("Io", 0)} \cup
    (IF Code(cmd) = None THEN {Err("Signal", 0)}
     ELSE IF Code(cmd)[1] # 0 THEN {Err("Status", Code(cmd)[1])} ELSE {})

\* C12: when the update of a dependency of T fails, update(T) returns that
\* error at once: nothing runs after the failing command, no later
\* dependency of T is updated, the modification times of T are not probed,
\* no command of T runs, and what earlier dependencies wrote stays written.
C12_DependencyFailureEndsUpdate ==
    \A q \in FailedBelow :
        LET e == trace[q]
        IN  /\ q = Len(trace)
            /\ returned # None
            /\ returned[1] \in ErrorOf(Map[e.target][1].commands[e.n])
            /\ ustack = <<>>
            /\ OwnChecks = <<>>
            /\ OwnCommands = <<>>
            /\ Len(DepReturns) = Len(DepCalls) - 1
            /\ \A k \in 1..Len(DepCalls) :
                  DepCalls[k].target = dependencies(Asked)[k]
            /\ \A k \in 1..Len(DepReturns) :
                  DepReturns[k].target = dependencies(Asked)[k]
            /\ \A j \in CommandRuns :
                  LET r == Map[trace[j].target][1]
                  IN  (trace[j].ok /\ r.commands[trace[j].n] = "touch") =>
                        \A o \in OutputSet(r) :
                            fs[o] > 0 /\ fs[o] <= now

\* C12 witness: the first dependency refreshed its output, the second one
\* failed with exit status 1, and update of the asked target returned that
\* error; the output the first one wrote is still written.
C12_Witness ==
    /\ returned # None
    /\ returned[1] = Err("Status", 1)
    /\ FailedBelow # {}
    /\ Len(dependencies(Asked)) = 2
    /\ Len(DepReturns) = 1 /\ DepReturns[1].ok
    /\ \E j \in CommandRuns : trace[j].ok /\ trace[j].depth = 2
    /\ fs["y"] > Date(MaxTime)

\* The update the driver ran before the current one, and the files as it
\* left them.
Before == done[Len(done)]

\* Every output of the target exists and is newer than each of its inputs.
OutputsNewer(self, f) ==
    \A o \in OutputSet(self) :
        /\ f[o] > 0
        /\ \A i \in InputSet(self) : f[o] > f[i]

\* Every input of the target exists.
InputsExist(self, f) == \A i \in InputSet(self) : f[i] > 0

\* The second update returned false and ran no command.
SecondDidNothing ==
    /\ returned[1] = Ok(FALSE)
    /\ \A q \in 1..Len(trace) : trace[q].ev # "cmd"

\* C13 (as claimed): after a first successful update of a target whose
\* outputs are then all newer than its inputs, a second update on the
\* unchanged file system returns false and runs no command.
C13_SecondCallReturnsFalse ==
    (/\ done # <<>>
     /\ returned # None
     /\ Before.returned.kind = "Ok"
     /\ OutputsNewer(Asked, Before.fs)) => SecondDidNothing

\* C13 (amended): the same, for a target that has at least one input, as
\* has every target it depends on, directly or not, each of them with all
\* its inputs existing and its outputs all newer than its inputs after the
\* first update.
C13_SecondCallOfFreshTargets ==
    (/\ done # <<>>
     /\ returned # None
     /\ Before.returned.kind = "Ok"
     /\ \A k \in {top} \cup LookedUp(Map, top) :
           /\ InputSet(Map[k][1]) # {}
           /\ InputsExist(Map[k][1], Before.fs)
           /\ OutputsNewer(Map[k][1], Before.fs)) => SecondDidNothing

\* C13 witness: input x present and output y absent, the first update ran
\* the command and returned true, the second one returned false.
C13_Witness ==
    /\ done # <<>>
    /\ returned # None
    /\ returned[1] = Ok(FALSE)
    /\ Before.returned = Ok(TRUE)
    /\ inputs(Asked) = <<"x">> /\ Asked.outputs = <<"y">>
    /\ Before.checks[1].fs["y"] = 0
    /\ \E q \in 1..Len(Before.trace) : Before.trace[q].ev = "cmd"
    /\ OutputsNewer(Asked, Before.fs)

\* The invocations of update on target a within the current call, the
\* staleness decisions taken for a, and the command runs of a.
CallsOfA == {q \in 1..Len(trace) : trace[q].ev = "call" /\ trace[q].target = "a"}
ReturnsOfA == {q \in 1..Len(trace) : trace[q].ev = "ret" /\ trace[q].target = "a"}
ChecksOfA == SelectSeq(checks, LAMBDA c : c.target = "a")
RunsOfA == {q \in CommandRuns : trace[q].target = "a"}
SecondCallOfA == CHOOSE q \in CallsOfA : \A q2 \in CallsOfA : q2 <= q

\* The second invocation of update(a) has returned: it returned false and
\* ran no command.
SecondOfAIdle ==
    /\ \A q \in RunsOfA : q < SecondCallOfA
    /\ \A q \in ReturnsOfA : q > SecondCallOfA => ~trace[q].ok

OutputsNotOlder(self, f) ==
    \A o \in OutputSet(self) :
        /\ f[o] > 0
        /\ \A i \in InputSet(self) : f[o] >= f[i]

\* The files as the first invocation of update(a) left them: b, whose only
\* dependency is a, takes its staleness decision on them.
ChecksOfB == SelectSeq(checks, LAMBDA c : c.target = "b")

C15_ReadFailureIsIoError ==
    (/\ returned # None
     /\ dependencies(Asked) = <<>>
     /\ Asked.commands = <<>>
     /\ \/ \E i \in InputSet(Asked) : fs[i] = Unreadable
        \/ /\ InputSet(Asked) # {}
           /\ \A i \in InputSet(Asked) : fs[i] > 0
           /\ \E o \in OutputSet(Asked) : fs[o] = Unreadable
           /\ \A o \in OutputSet(Asked) :
                 fs[o] > 0 => \A i \in InputSet(Asked) : fs[o] >= fs[i])
        => returned[1] = Err("Io", 0)

\* Whether the predicate classifies a name as a target, and the name the
\* dependency output carries for it.
IsTarget(dep) == splitPredicate[dep] # None
Canonical(dep) ==
    IF splitPredicate[dep][1] # None THEN splitPredicate[dep][1][1] ELSE dep

\* C16: split of a Mixed list is a partition: the names the predicate
\* classifies as targets make up the dependency output, in their order, each
\* under its canonical name when one is given; the other names make up the
\* input output, in their order; every name lands in exactly one of them.
C16_MixedSplitPartitions ==
    (splitResult # None /\ splitSelf.kind = "Mixed") =>
        LET r     == splitResult[1]
            names == splitSelf.names
            tgts  == SelectSeq(names, IsTarget)
        IN  /\ ~r.panicked
            /\ r.inputs = SelectSeq(names, LAMBDA n : ~IsTarget(n))
            /\ r.dependencies = [k \in 1..Len(tgts) |-> Canonical(tgts[k])]
            /\ Len(r.inputs) + Len(r.dependencies) = Len(names)

\* C16 witness: a list of three with an input between two targets, the
\* first of which is given a canonical name.
C16_Witness ==
    /\ splitResult # None
    /\ splitSelf = Mixed(<<"a", "f", "b">>)
    /\ splitPredicate["a"] = Some(Some("c"))
    /\ splitPredicate["f"] = None
    /\ splitPredicate["b"] = Some(None)
    /\ splitResult[1].dependencies = <<"c", "b">>
    /\ splitResult[1].inputs = <<"f">>

\* C17: split of an UnMixed value passes the inputs through and fails,
\* naming the string, at the first dependency the predicate does not
\* classify as a target; when all classify, the dependency output has the
\* same length and order, canonical names substituted.
C17_UnMixedSplitChecks ==
    (splitResult # None /\ splitSelf.kind = "UnMixed") =>
        LET r    == splitResult[1]
            deps == splitSelf.dependencies
            bad  == {k \in 1..Len(deps) : ~IsTarget(deps[k])}
        IN  /\ r.inputs = splitSelf.inputs
            /\ r.panicked <=> bad # {}
            /\ r.panicked =>
                  \E k \in bad : /\ \A j \in bad : k <= j
                                 /\ r.missing = deps[k]
            /\ ~r.panicked =>
                  /\ Len(r.dependencies) = Len(deps)
                  /\ \A k \in 1..Len(deps) : r.dependencies[k] = Canonical(deps[k])

\* C17 witness: the second and the third dependency are unknown and the
\* failure names the second.
C17_Witness ==
    /\ splitResult # None
    /\ splitSelf = UnMixed(<<"a", "f">>, <<"a", "f", "b">>)
    /\ splitPredicate["a"] = Some(Some("c"))
    /\ splitPredicate["f"] = None
    /\ splitPredicate["b"] = None
    /\ splitResult[1].panicked
    /\ splitResult[1].missing = "f"

\* C18 (as claimed): File::from_str of a well-formed rule document returns
\* Ok, whatever the document.
C18_WellFormedParses ==
    parsed # None => parsed[1].kind = "Ok"

\* Every dependency of the asked target has returned Ok.
DependenciesDone == Len(DepReturns) = Len(dependencies(Asked))

\* C19: a target without outputs is never stale by the output check: with
\* at least one input and no dependency that reported an update, update
\* returns false and runs no command; when it is forced, by an updated
\* dependency or by having no inputs, its commands run.
C19_NoOutputsNeverStale ==
    /\ \A k \in 1..Len(checks) :
          LET self == Map[checks[k].target][1]
          IN  self.outputs = <<>> =>
                (checks[k].forced <=> (checks[k].updated \/ inputs(self) = <<>>))
    /\ (returned # None /\ Asked.outputs = <<>> /\ DependenciesDone) =>
          IF inputs(Asked) = <<>> \/ \E k \in 1..Len(DepReturns) : DepReturns[k].ok
          THEN /\ returned[1].kind # "Panic"
               /\ CommandsRanToFirstFailure
               /\ AllCommandsRan => returned[1] = Ok(TRUE)
          ELSE /\ returned[1] = Ok(FALSE)
               /\ OwnCommands = <<>>

\* What finalize_list still has to do: the targets pending, weighted by the
\* most steps one of them takes, plus the turns left in the loops of the
\* calls of finalize on the stack, plus the final return.
RECURSIVE TurnsLeft(_)
TurnsLeft(st) ==
    IF st = <<>> THEN 0
    ELSE (Len(Head(st).dependencies) - Head(st).i + 2) + TurnsLeft(Tail(st))

Work ==
    (IF outcome = "running" THEN 1 ELSE 0)
    + Len(list) * (MaxDeps + 3)
    + TurnsLeft(stack)

\* C20: finalize_list terminates on every raw list, cyclic names included:
\* every step of finalize_list and finalize lowers a measure that is never
\* negative, and as long as no map or failure has been produced a step is
\* possible.
C20_FinalizeTerminates ==
    /\ [][Work' < Work]_vars
    /\ [](Work >= 0)
    /\ [](outcome = "running" => ENABLED Next)

\* C20 witness: a list of three whose names form a cycle ended, here in the
\* Cycle failure met two calls deep.
C20_Witness ==
    /\ outcome = "Cycle"
    /\ Len(input) = 3
    /\ HasCycle(input)
    /\ Len(stack) >= 2

\* The number of targets on the longest dependency chain that starts at k.
RECURSIVE Chain(_, _)
Chain(m, k) ==
    LET deps == dependencies(m[k][1])
        cs   == {Chain(m, deps[j]) : j \in 1..Len(deps)}
    IN  1 + (IF cs = {} THEN 0 ELSE CHOOSE c \in cs : \A x \in cs : x <= c)

\* The steps a call of update on k takes at most: a turn of the fold and a
\* whole call for each dependency, the check, each command, the return.
RECURSIVE CallSteps(_, _)
RECURSIVE DepSteps(_, _, _)
DepSteps(m, deps, i) ==
    IF i > Len(deps) THEN 0
    ELSE 1 + CallSteps(m, deps[i]) + DepSteps(m, deps, i + 1)

CallSteps(m, k) ==
    DepSteps(m, dependencies(m[k][1]), 1) + Len(m[k][1].commands) + 2

\* The steps the call in frame f still takes at most.
FrameSteps(m, f) ==
    LET self == m[f.target][1]
    IN  DepSteps(m, dependencies(self), f.i)
        + (IF f.running THEN Len(self.commands) - f.c + 2
           ELSE Len(self.commands) + 2)

RECURSIVE StackSteps(_, _)
StackSteps(m, st) ==
    IF st = <<>> THEN 0 ELSE FrameSteps(m, Head(st)) + StackSteps(m, Tail(st))

\* What is left of the updates the driver asks for.
UpdateWork ==
    (IF calls < MaxCalls THEN (MaxCalls - calls) * (1 + CallSteps(Map, top)) ELSE 0)
    + StackSteps(Map, ustack)

\* C21: on a finalized map update terminates, and its calls never nest deeper
\* than the number of targets on the longest dependency chain from the target
\* asked for: every step of update lowers a measure without making it negative,
\* a call that has not returned can always take a step, and the stack of
\* calls is never longer than the longest chain.
C21_UpdateTerminatesWithinChain ==
    /\ [](Len(ustack) <= Chain(Map, top))
    /\ [][LET left == UpdateWork' IN 0 <= left /\ left < UpdateWork]_vars
    /\ [](ustack # <<>> => ENABLED NextUpdate)

\* C21 witness: update of c returned after its calls nested three deep, in a
\* map whose longest chain from c is c, b, a.
C21_Witness ==
    /\ returned # None
    /\ returned[1].kind = "Ok"
    /\ Chain(Map, top) = 3
    /\ \E q \in 1..Len(trace) : trace[q].ev = "call" /\ trace[q].depth = 3

\* C22: for each output of a rule, UpdateReq::needs_update is true exactly
\* when the output does not exist, or some input is newer than it, or the
\* rule has no inputs.
C22_OutputNeedsUpdateRule ==
    reqs # None =>
        LET rule == reqs[1].rule
        IN  \A k \in 1..Len(rule.outs) :
                reqs[1].needs[k] <=>
                    \/ rule.outs[k][2] = None
                    \/ \E j \in 1..Len(rule.inps) :
                            rule.inps[j][2] > rule.outs[k][2][1]
                    \/ rule.inps = <<>>

\* The raw targets in the pending list, in the calls of finalize under way,
\* and in the output map.
PendingIds == {list[i].id : i \in 1..Len(list)}
PathIds == {stack[i].self.id : i \in 1..Len(stack)}
PostIds == {t.id : t \in Values(post)}

\* The names of the pending list and of the output map: what the lookup of
\* finalize can find.
Visible == {list[i].name : i \in 1..Len(list)} \cup {t.name : t \in Values(post)}

Elements(s) == {s[k] : k \in 1..Len(s)}

\* C23: a target whose finalization is under way has its name on the path
\* and is in neither the pending list nor the output map; and when a call of
\* finalize has just resolved a Mixed list, every name of it that is on the
\* path and is the name of no pending or finalized target has become an input
\* file path and not a dependency.
C23_InProgressIsInvisible ==
    /\ Len(path) = Len(stack)
    /\ \A i \in 1..Len(stack) :
            /\ path[i] = stack[i].self.name
            /\ stack[i].self.id \notin PendingIds \cup PostIds
    /\ stack # <<>> =>
            LET f == stack[Len(stack)]
            IN  (f.i = 1 /\ f.self.dependencies.kind = "Mixed") =>
                    \A n \in Elements(f.self.dependencies.names) :
                        (PathContains(path, n) /\ n \notin Visible) =>
                            /\ n \in Elements(f.inputs)
                            /\ n \notin Elements(f.dependencies)

\* C23 witness: finalize of a, called from finalize of b, has just resolved
\* a Mixed list naming b: b is on the path only, and is an input of a.
C23_Witness ==
    /\ Len(stack) = 2
    /\ stack[2].i = 1
    /\ stack[2].self.dependencies.kind = "Mixed"
    /\ path[1] # path[2]
    /\ path[1] \in Elements(stack[2].self.dependencies.names)
    /\ path[1] \notin Visible
    /\ path[1] \in Elements(stack[2].inputs)

\* C24: when the names of the raw list are pairwise distinct, the call of
\* finalize in control has no resolved dependency whose name is on the path,
\* and finalization never ends in the cyclic-dependency panic; that panic
\* only happens when two raw targets share a name.
C24_DistinctNamesNeverCycle ==
    DistinctNames(input) =>
        /\ outcome # "Cycle"
        /\ stack # <<>> =>
                \A d \in Elements(stack[Len(stack)].dependencies) :
                    ~PathContains(path, d)

\* C24 witness: in a list of distinct names that form a cycle, a call of
\* finalize two deep has passed the path check for a dependency.
C24_Witness ==
    /\ DistinctNames(input)
    /\ HasCycle(input)
    /\ outcome = "running"
    /\ Len(stack) = 2
    /\ stack[2].i = 2
    /\ Len(stack[2].dependencies) >= 1

\* C25: at every point of finalize_list every resolved dependency of every
\* target in the output map is a key of the output map, and no raw target is
\* held twice by the pending list, the calls of finalize under way and the
\* output map together.
C25_MapClosedAndHoldersDisjoint ==
    /\ \A t \in Values(post) : Elements(dependencies(t)) \subseteq Keys(post)
    /\ \A i, j \in 1..Len(list) : i # j => list[i].id # list[j].id
    /\ \A i, j \in 1..Len(stack) : i # j => stack[i].self.id # stack[j].self.id
    /\ \A k, n \in Keys(post) : k # n => post[k][1].id # post[n][1].id
    /\ PendingIds \cap PathIds = {}
    /\ PendingIds \cap PostIds = {}
    /\ PathIds \cap PostIds = {}

\* C25 witness: finalize_list is still at work, a call of finalize is under
\* way, another target is pending, and the map already holds a target.
C25_Witness ==
    /\ outcome = "running"
    /\ Len(stack) = 1
    /\ stack[1].i > 1
    /\ list # <<>>
    /\ \E t \in Values(post) : t.name \in Elements(stack[1].dependencies)
====
